---- MODULE Spec2Model ----
(***************************************************************************)
(* A model of telebot's Bot (bot.go): construction (NewBot), the two ways  *)
(* of starting the long-polling loop (Listen, Start) and the loop itself   *)
(* (poll), together with the Go channels it sends on and the remote source *)
(* of updates it fetches from.                                             *)
(***************************************************************************)
EXTENDS Integers, Sequences, FiniteSets, TLC

\* ---------------------------------------------------------------- bounds
\* Number of updates the remote source ever holds (identifiers 1..MaxId).
MaxId == 3
\* Largest number of updates one getUpdates reply carries.
MaxBatch == 2
\* Largest capacity a channel is made with (0 = unbuffered).
MaxCap == 1
\* Longest run of consecutive getUpdates errors that is explored.
MaxErr == 2
\* Number of send/respond invocations that is explored.
MaxCalls == 3

\* ------------------------------------------------------------- constants
Nil == "nil"

\* The two ways a poll loop is started.
LoopIds == {"Listen", "Start"}

\* The channel objects of a run: the three fields of Bot and the channel
\* handed to Listen.
ChanIds == {"Messages", "Queries", "Callbacks", "subscription"}

\* An Update: its identifier and which of its three pointer fields are
\* non-nil (TRUE = populated).  The shapes explored: no payload, each single
\* payload, and Payload together with Query; the other combinations with
\* Callback take the same branch of poll as the shape without it.
UpdateShapes ==
    {s \in [Payload : BOOLEAN, Query : BOOLEAN, Callback : BOOLEAN] :
        s.Callback => (~s.Payload /\ ~s.Query)}

Update(id, shape) ==
    [ID |-> id, Payload |-> shape.Payload, Query |-> shape.Query,
     Callback |-> shape.Callback]

VARIABLES
    bot,            \* the fields of the Bot NewBot builds (NoBot: no bot)
    newBot,         \* how the NewBot call ended: "uncalled", "ok", "error"
    chanCap,        \* capacity the program's channels are made with
    buf,            \* buf[c]: the values buffered in channel c
    source,         \* the updates the remote source holds, by identifier
    pc,             \* pc[l]: where poll loop l stands
    chans,          \* chans[l]: poll's parameters messages/queries/callbacks
    latestUpdate,   \* latestUpdate[l]: poll's local cursor
    updates,        \* updates[l]: the batch poll is ranging over
    idx,            \* idx[l]: position of the range loop in updates[l]
    lastFetch,      \* lastFetch[l]: offset of the latest getUpdates call and
                    \*   the number of consecutive errors ending with it
    seen,           \* seen[l]: identifiers returned by l's getUpdates calls
    sent,           \* every completed channel send, in order
    returned,       \* returned[l]: the call that started loop l has returned
    file,           \* the file object (Photo, Audio, ...) handed to the sends
    remote,         \* calls made so far to getMe, sendCommand and sendFile
    inv,            \* invocations of send/respond operations, and how many
                    \*   of them returned an error
    last            \* the latest send/respond invocation and its outcome

botVars  == <<bot, newBot>>
chanVars == <<chanCap, buf>>
loopVars == <<pc, chans, latestUpdate, updates, idx>>
histVars == <<lastFetch, seen, sent>>
sendVars == <<file, remote, inv, last>>
vars == <<bot, newBot, chanCap, buf, source, pc, chans, latestUpdate,
          updates, idx, lastFetch, seen, sent, returned, file, remote, inv,
          last>>

\* The nil *Bot.
NoBot == [Token |-> Nil, Identity |-> Nil,
          Messages |-> Nil, Queries |-> Nil, Callbacks |-> Nil]

NoChans == [messages |-> Nil, queries |-> Nil, callbacks |-> Nil]

\* No file object has been made yet.
NoFile == [kind |-> Nil, FileID |-> "", filename |-> ""]

\* The nil error.
NoError == [kind |-> Nil, text |-> ""]

\* A response of the remote API as the send operations see it: whether the
\* transport returned it without error, whether it decodes, and the decoded
\* envelope: Ok, Description, and of Result the file identifiers of the
\* Photo sizes and the file identifier of Audio/Document/Sticker/Video.
Response(t, v, ok, d, photo, f) ==
    [transport |-> t, valid |-> v, Ok |-> ok, Description |-> d,
     Photo |-> photo, File |-> f]

NoResponse == Response(FALSE, FALSE, FALSE, "", <<>>, "")

\* No send/respond operation has been invoked yet.
NoCall == [op |-> Nil, fn |-> Nil, calls |-> 0, resp |-> NoResponse,
           err |-> NoError, panic |-> FALSE]

Init ==
    /\ bot = NoBot
    /\ newBot = "uncalled"
    /\ chanCap \in 0..MaxCap
    /\ buf = [c \in ChanIds |-> <<>>]
    /\ source = <<>>
    /\ pc = [l \in LoopIds |-> "idle"]
    /\ chans = [l \in LoopIds |-> NoChans]
    /\ latestUpdate = [l \in LoopIds |-> 0]
    /\ updates = [l \in LoopIds |-> <<>>]
    /\ idx = [l \in LoopIds |-> 1]
    /\ lastFetch = [l \in LoopIds |-> [offset |-> 0, errs |-> 0]]
    /\ seen = [l \in LoopIds |-> {}]
    /\ sent = <<>>
    /\ returned = [l \in LoopIds |-> FALSE]
    /\ file = NoFile
    /\ remote = [getMe |-> 0, sendCommand |-> 0, sendFile |-> 0]
    /\ inv = [n |-> 0, errs |-> 0]
    /\ last = NoCall

\* --------------------------------------------------------------- NewBot
\* getMe succeeded: the bot carries the token and the identity; its three
\* channel fields are the zero value (nil).
NewBotOk ==
    /\ newBot = "uncalled"
    /\ newBot' = "ok"
    /\ bot' = [Token |-> "token", Identity |-> "me",
               Messages |-> Nil, Queries |-> Nil, Callbacks |-> Nil]
    /\ remote' = [remote EXCEPT !.getMe = @ + 1]
    /\ UNCHANGED <<chanVars, source, loopVars, histVars, returned, file, inv,
                   last>>

\* Variant of NewBotErr: the bot is built with the token before the
\* identity check, and returned with the error.
NewBotErrPartial ==
    /\ newBot = "uncalled"
    /\ newBot' = "error"
    /\ bot' = [NoBot EXCEPT !.Token = "token"]
    /\ remote' = [remote EXCEPT !.getMe = @ + 1]
    /\ UNCHANGED <<chanVars, source, loopVars, histVars, returned, file,
                   inv, last>>

\* getMe failed: nil bot and the error.
NewBotErr ==
    /\ newBot = "uncalled"
    /\ newBot' = "error"
    /\ remote' = [remote EXCEPT !.getMe = @ + 1]
    /\ UNCHANGED <<bot, chanVars, source, loopVars, histVars, returned, file,
                   inv, last>>

\* The owner of the bot assigns made channels to the exported fields
\* Messages, Queries, Callbacks before starting a loop.
SetChannels(ms, qs, cs) ==
    /\ newBot = "ok"
    /\ \A l \in LoopIds : pc[l] = "idle"
    /\ bot.Messages = Nil /\ bot.Queries = Nil /\ bot.Callbacks = Nil
    /\ <<ms, qs, cs>> # <<Nil, Nil, Nil>>
    /\ bot' = [bot EXCEPT !.Messages = ms, !.Queries = qs, !.Callbacks = cs]
    /\ UNCHANGED <<newBot, chanVars, source, loopVars, histVars, returned,
                   sendVars>>

\* ------------------------------------------------------- Listen / Start
\* Entry of poll: the parameters are bound and latestUpdate := 0.
EnterPoll(l, ms, qs, cs) ==
    /\ pc[l] = "idle"
    /\ pc' = [pc EXCEPT ![l] = "fetch"]
    /\ chans' = [chans EXCEPT ![l] =
                    [messages |-> ms, queries |-> qs, callbacks |-> cs]]
    /\ latestUpdate' = [latestUpdate EXCEPT ![l] = 0]
    /\ UNCHANGED <<updates, idx>>

\* Variant of Listen: the loop is handed the bot's own query and callback
\* channels instead of nil.
ListenAll(subscription) ==
    /\ newBot = "ok"
    /\ EnterPoll("Listen", subscription, bot.Queries, bot.Callbacks)
    /\ returned' = [returned EXCEPT !["Listen"] = TRUE]
    /\ UNCHANGED <<botVars, sendVars, chanVars, source, histVars>>

\* Variant of Listen: poll is called without `go`, on the caller's goroutine.
ListenInline(subscription) ==
    /\ newBot = "ok"
    /\ EnterPoll("Listen", subscription, Nil, Nil)
    /\ UNCHANGED <<botVars, returned, sendVars, chanVars, source, histVars>>

\* go b.poll(subscription, nil, nil, timeout): the loop runs on a goroutine
\* of its own and Listen returns to its caller.
Listen(subscription) ==
    /\ newBot = "ok"
    /\ EnterPoll("Listen", subscription, Nil, Nil)
    /\ returned' = [returned EXCEPT !["Listen"] = TRUE]
    /\ UNCHANGED <<botVars, sendVars, chanVars, source, histVars>>

\* b.poll(b.Messages, b.Queries, b.Callbacks, timeout): the loop runs on the
\* caller's goroutine; Start returns when poll does, and poll has no return.
Start ==
    /\ newBot = "ok"
    /\ EnterPoll("Start", bot.Messages, bot.Queries, bot.Callbacks)
    /\ UNCHANGED <<botVars, returned, sendVars, chanVars, source, histVars>>

\* ---------------------------------------------------- the remote source
\* `source` is the remote source's sequence of updates as far as it has been
\* returned by getUpdates; identifiers are consecutive from 1.  An update
\* the source holds but has not returned yet enters `source` with the first
\* reply that carries it.

\* The updates already returned once that have identifier >= offset, in
\* identifier order.
Pending(offset) == SelectSeq(source, LAMBDA u : u.ID >= offset)

\* n updates new to the program, with the next n identifiers.
Fresh(n) ==
    {[i \in 1..n |-> Update(Len(source) + i, f[i])] :
        f \in [1..n -> UpdateShapes]}

\* The replies getUpdates(token, offset, timeout) can give without error, as
\* pairs <<batch, new>>: the batch is the oldest k updates with identifier
\* >= offset (k <= MaxBatch), of which `new` were never returned before; the
\* batch is empty only when the source holds no such update.
Replies(offset) ==
    LET p == Pending(offset)
    IN  {<<SubSeq(p, 1, k), <<>>>> : k \in 1..Len(p)} \cup
        UNION {{<<p \o new, new>> : new \in Fresh(n)} :
                  n \in 0..(MaxId - Len(source))}

IdsOf(batch) == {batch[i].ID : i \in 1..Len(batch)}

\* ------------------------------------------------------------------ poll
\* Variant of Offset: the cursor itself is requested.
OffsetStale(l) == latestUpdate[l]

\* The offset poll passes to getUpdates.
Offset(l) == latestUpdate[l] + 1

\* Where the range loop goes after the update at idx[l].
Advance(l) ==
    /\ idx' = [idx EXCEPT ![l] = idx[l] + 1]
    /\ pc' = [pc EXCEPT ![l] =
                 IF idx[l] + 1 > Len(updates[l]) THEN "fetch" ELSE "route"]

\* getUpdates returned a batch: the range loop starts on it.
GetUpdatesOk(l) ==
    /\ pc[l] = "fetch"
    /\ \E r \in Replies(Offset(l)) :
        LET batch == r[1] IN
        /\ Len(batch) <= MaxBatch
        /\ source' = source \o r[2]
        /\ updates' = [updates EXCEPT ![l] = batch]
        /\ idx' = [idx EXCEPT ![l] = 1]
        /\ pc' = [pc EXCEPT ![l] = IF batch = <<>> THEN "fetch" ELSE "route"]
        /\ seen' = [seen EXCEPT ![l] = seen[l] \cup IdsOf(batch)]
    /\ lastFetch' = [lastFetch EXCEPT ![l] = [offset |-> Offset(l), errs |-> 0]]
    /\ UNCHANGED <<botVars, returned, sendVars, chanVars, chans, latestUpdate, sent>>

\* Variant of GetUpdatesErr: poll returns on an error.
GetUpdatesErrReturn(l) ==
    /\ pc[l] = "fetch"
    /\ LET n == IF lastFetch[l].offset = Offset(l) THEN lastFetch[l].errs ELSE 0
       IN  /\ n < MaxErr
           /\ lastFetch' = [lastFetch EXCEPT ![l] =
                               [offset |-> Offset(l), errs |-> n + 1]]
    /\ pc' = [pc EXCEPT ![l] = "done"]
    /\ UNCHANGED <<botVars, returned, sendVars, chanVars, source, chans, latestUpdate, updates,
                   idx, seen, sent>>

\* getUpdates returned an error: log and continue the outer loop.
GetUpdatesErr(l) ==
    /\ pc[l] = "fetch"
    /\ LET n == IF lastFetch[l].offset = Offset(l) THEN lastFetch[l].errs ELSE 0
       IN  /\ n < MaxErr
           /\ lastFetch' = [lastFetch EXCEPT ![l] =
                               [offset |-> Offset(l), errs |-> n + 1]]
    /\ UNCHANGED <<botVars, returned, sendVars, chanVars, source, loopVars, seen, sent>>

\* Variant of Target: the Query field is tested before the Payload field.
TargetQueryFirst(u, ch) ==
    IF u.Query THEN [kind |-> "Query", chan |-> ch.queries]
    ELSE IF u.Payload THEN [kind |-> "Message", chan |-> ch.messages]
    ELSE IF u.Callback THEN [kind |-> "Callback", chan |-> ch.callbacks]
    ELSE [kind |-> "none", chan |-> Nil]

\* The branch of the if/else-if chain update u takes: the payload kind and
\* the channel parameter it is tested against.
Target(u, ch) ==
    IF u.Payload THEN [kind |-> "Message", chan |-> ch.messages]
    ELSE IF u.Query THEN [kind |-> "Query", chan |-> ch.queries]
    ELSE IF u.Callback THEN [kind |-> "Callback", chan |-> ch.callbacks]
    ELSE [kind |-> "none", chan |-> Nil]

\* Variant of Current: the batch is ranged over from its end.
CurrentBackwards(l) == updates[l][Len(updates[l]) - idx[l] + 1]

\* The update of the current iteration of the range loop.
Current(l) == updates[l][idx[l]]

\* Variant of Continue: `continue` leaves the range loop for the next fetch.
ContinueOuter(l) ==
    /\ pc' = [pc EXCEPT ![l] = "fetch"]
    /\ UNCHANGED <<idx, latestUpdate>>

\* `continue` in the range loop (the channel of the update is nil): on to
\* the next update; the assignment to latestUpdate is not reached.
Continue(l) ==
    /\ Advance(l)
    /\ UNCHANGED latestUpdate

\* Variant of AssignLatest: the cursor is left one short of the update.
AssignLatestBehind(l) ==
    /\ latestUpdate' = [latestUpdate EXCEPT ![l] = Current(l).ID - 1]
    /\ Advance(l)

\* Variant of AssignLatest: latestUpdate is one variable of the bot, shared
\* by its loops.
AssignLatestShared(l) ==
    /\ latestUpdate' = [m \in LoopIds |-> Current(l).ID]
    /\ Advance(l)

\* The end of the loop body: latestUpdate = update.ID, then the next update.
AssignLatest(l) ==
    /\ latestUpdate' = [latestUpdate EXCEPT ![l] = Current(l).ID]
    /\ Advance(l)

\* Variant of Dispatch: latestUpdate is assigned before the send.
DispatchAssignFirst(l) ==
    /\ pc[l] = "route"
    /\ LET t == Target(Current(l), chans[l])
       IN  IF t.kind = "none" THEN AssignLatest(l)
           ELSE IF t.chan = Nil THEN Continue(l)
           ELSE /\ pc' = [pc EXCEPT ![l] = "send"]
                /\ latestUpdate' = [latestUpdate EXCEPT ![l] = Current(l).ID]
                /\ UNCHANGED idx
    /\ UNCHANGED <<botVars, returned, sendVars, chanVars, source, chans, updates, histVars>>

\* Variant of Dispatch: an update with no payload is skipped by `continue`.
DispatchSkipEmpty(l) ==
    /\ pc[l] = "route"
    /\ LET t == Target(Current(l), chans[l])
       IN  IF t.kind = "none" THEN Continue(l)
           ELSE IF t.chan = Nil THEN Continue(l)
           ELSE /\ pc' = [pc EXCEPT ![l] = "send"]
                /\ UNCHANGED <<idx, latestUpdate>>
    /\ UNCHANGED <<botVars, returned, sendVars, chanVars, source, chans, updates, histVars>>

\* One iteration of the range loop up to its channel send: an update whose
\* channel is nil is skipped by `continue`, an update with no payload falls
\* through to the cursor assignment, any other reaches its send.
Dispatch(l) ==
    /\ pc[l] = "route"
    /\ LET t == Target(Current(l), chans[l])
       IN  IF t.kind = "none" THEN AssignLatest(l)
           ELSE IF t.chan = Nil THEN Continue(l)
           ELSE /\ pc' = [pc EXCEPT ![l] = "send"]
                /\ UNCHANGED <<idx, latestUpdate>>
    /\ UNCHANGED <<botVars, returned, sendVars, chanVars, source, chans, updates, histVars>>

\* The value the pending send of loop l carries.
Sending(l) ==
    LET u == Current(l)
        t == Target(u, chans[l])
    IN  [loop |-> l, chan |-> t.chan, kind |-> t.kind, of |-> u.ID]

\* Variant of AfterSend: latestUpdate is not assigned after the send.
AfterSendNoAssign(l) ==
    /\ sent' = Append(sent, Sending(l))
    /\ Advance(l)
    /\ UNCHANGED latestUpdate
    /\ UNCHANGED <<botVars, returned, sendVars, chanCap, source, chans, updates, lastFetch, seen>>

\* The send has completed: latestUpdate = update.ID and the next iteration.
AfterSend(l) ==
    /\ sent' = Append(sent, Sending(l))
    /\ AssignLatest(l)
    /\ UNCHANGED <<botVars, returned, sendVars, chanCap, source, chans, updates, lastFetch, seen>>

\* The send completes into the channel's buffer, which has room.
SendToBuffer(l) ==
    /\ pc[l] = "send"
    /\ LET c == Sending(l).chan
       IN  /\ Len(buf[c]) < chanCap
           /\ buf' = [buf EXCEPT ![c] = Append(buf[c], Sending(l))]
    /\ AfterSend(l)

\* The send completes by handing the value to a receiver that is ready on
\* the channel (the only way on an unbuffered channel).
SendToReceiver(l) ==
    /\ pc[l] = "send"
    /\ buf[Sending(l).chan] = <<>>
    /\ UNCHANGED buf
    /\ AfterSend(l)

\* A consumer receives the oldest buffered value of channel c.
Receive(c) ==
    /\ buf[c] # <<>>
    /\ buf' = [buf EXCEPT ![c] = Tail(buf[c])]
    /\ UNCHANGED <<botVars, returned, sendVars, chanCap, source, loopVars, histVars>>

PollStep(l) ==
    \/ GetUpdatesOk(l)
    \/ GetUpdatesErr(l)
    \/ Dispatch(l)
    \/ SendToBuffer(l)
    \/ SendToReceiver(l)

\* No poll loop has been started yet.
NoLoop == \A l \in LoopIds : pc[l] = "idle"

\* One bot, one poll loop (started by Listen or by Start).
Next ==
    \/ NewBotOk
    \/ NewBotErr
    \/ \E ms \in {Nil, "Messages"}, qs \in {Nil, "Queries"},
          cs \in {Nil, "Callbacks"} : SetChannels(ms, qs, cs)
    \/ NoLoop /\ \E s \in {Nil, "subscription"} : Listen(s)
    \/ NoLoop /\ Start
    \/ \E l \in LoopIds : PollStep(l)
    \/ \E c \in ChanIds : Receive(c)

Spec == Init /\ [][Next]_vars

\* ------------------------------------------------ send / respond operations
\* The kinds of file object the send operations take.
\* One bot with a Listen loop and a Start loop running side by side: each
\* call starts its own goroutine / runs in the caller's.
NextMulti ==
    \/ \E s \in {Nil, "subscription"} : Listen(s)
    \/ Start
    \/ \E l \in LoopIds : PollStep(l)
    \/ \E c \in ChanIds : Receive(c)

\* The bot has been made by NewBot and its owner has set the three channels.
InitMulti ==
    /\ bot = [Token |-> "token", Identity |-> "me", Messages |-> "Messages",
              Queries |-> "Queries", Callbacks |-> "Callbacks"]
    /\ newBot = "ok"
    /\ chanCap \in 0..MaxCap
    /\ buf = [c \in ChanIds |-> <<>>]
    /\ source = <<>>
    /\ pc = [l \in LoopIds |-> "idle"]
    /\ chans = [l \in LoopIds |-> NoChans]
    /\ latestUpdate = [l \in LoopIds |-> 0]
    /\ updates = [l \in LoopIds |-> <<>>]
    /\ idx = [l \in LoopIds |-> 1]
    /\ lastFetch = [l \in LoopIds |-> [offset |-> 0, errs |-> 0]]
    /\ seen = [l \in LoopIds |-> {}]
    /\ sent = <<>>
    /\ returned = [l \in LoopIds |-> FALSE]
    /\ file = NoFile
    /\ remote = [getMe |-> 1, sendCommand |-> 0, sendFile |-> 0]
    /\ inv = [n |-> 0, errs |-> 0]
    /\ last = NoCall

SpecMulti == InitMulti /\ [][NextMulti]_vars

\* ------------------------------------------- a source that holds updates
\* The remote source holds MaxId updates from the start, whether or not a
\* loop has fetched them; the bot has been made and its channels are set.
InitLive ==
    /\ bot = [Token |-> "token", Identity |-> "me", Messages |-> "Messages",
              Queries |-> "Queries", Callbacks |-> "Callbacks"]
    /\ newBot = "ok"
    /\ chanCap \in 0..MaxCap
    /\ buf = [c \in ChanIds |-> <<>>]
    /\ source \in {[i \in 1..MaxId |-> Update(i, f[i])] :
                      f \in [1..MaxId -> UpdateShapes]}
    /\ pc = [l \in LoopIds |-> "idle"]
    /\ chans = [l \in LoopIds |-> NoChans]
    /\ latestUpdate = [l \in LoopIds |-> 0]
    /\ updates = [l \in LoopIds |-> <<>>]
    /\ idx = [l \in LoopIds |-> 1]
    /\ lastFetch = [l \in LoopIds |-> [offset |-> 0, errs |-> 0]]
    /\ seen = [l \in LoopIds |-> {}]
    /\ sent = <<>>
    /\ returned = [l \in LoopIds |-> FALSE]
    /\ file = NoFile
    /\ remote = [getMe |-> 1, sendCommand |-> 0, sendFile |-> 0]
    /\ inv = [n |-> 0, errs |-> 0]
    /\ last = NoCall

\* The reply of a getUpdates that succeeds: the oldest updates the source
\* holds with identifier >= offset, as many as the batch bound allows.
Oldest(offset) ==
    LET p == Pending(offset)
    IN  SubSeq(p, 1, IF Len(p) < MaxBatch THEN Len(p) ELSE MaxBatch)

\* getUpdates succeeded against the source that holds its updates: an empty
\* batch goes straight to the next fetch.
GetUpdatesOldest(l) ==
    /\ pc[l] = "fetch"
    /\ LET batch == Oldest(Offset(l)) IN
        /\ updates' = [updates EXCEPT ![l] = batch]
        /\ idx' = [idx EXCEPT ![l] = 1]
        /\ pc' = [pc EXCEPT ![l] = IF batch = <<>> THEN "fetch" ELSE "route"]
        /\ seen' = [seen EXCEPT ![l] = seen[l] \cup IdsOf(batch)]
    /\ lastFetch' = [lastFetch EXCEPT ![l] =
                        [offset |-> Offset(l), errs |-> 0]]
    /\ UNCHANGED <<botVars, returned, sendVars, chanVars, source, chans,
                   latestUpdate, sent>>

NextLive ==
    \/ NoLoop /\ \E s \in {Nil, "subscription"} : Listen(s)
    \/ NoLoop /\ Start
    \/ \E l \in LoopIds :
          \/ GetUpdatesOldest(l)
          \/ GetUpdatesErr(l)
          \/ Dispatch(l)
          \/ SendToBuffer(l)
          \/ SendToReceiver(l)
    \/ \E c \in ChanIds : Receive(c)

\* The loop's goroutine keeps running, getUpdates does not fail forever,
\* and every consumer keeps receiving from its channel.
Fairness ==
    /\ \A l \in LoopIds :
          /\ WF_vars(GetUpdatesOldest(l))
          /\ WF_vars(Dispatch(l))
          /\ WF_vars(SendToBuffer(l))
          /\ WF_vars(SendToReceiver(l))
    /\ \A c \in ChanIds : WF_vars(Receive(c))

SpecLive == InitLive /\ [][NextLive]_vars /\ Fairness

FileKinds == {"Photo", "Audio", "Document", "Sticker", "Video"}

\* The operations that go through sendRawMessage, by the command they pass.
RawCommands ==
    {"sendMessage", "forwardMessage", "editMessageText", "sendLocation",
     "sendVenue"}

\* The operations that decode the bare {Ok, Description} envelope.
EnvelopeOps ==
    {"EditInlineMessageText", "SendChatAction", "AnswerInlineQuery",
     "AnswerCallbackQuery"}

\* The operations that send a file object.
FileOps == {"sendPhoto", "sendAudio", "sendDocument", "sendSticker",
            "sendVideo"}

\* The responses explored: a transport error, a body that does not decode,
\* an envelope with ok = false, and envelopes with ok = true whose result
\* carries or lacks the photo sizes and the file.
Responses ==
    {Response(FALSE, FALSE, FALSE, "", <<>>, ""),
     Response(TRUE, FALSE, FALSE, "", <<>>, ""),
     Response(TRUE, TRUE, FALSE, "Bad Request", <<>>, "")} \cup
    {Response(TRUE, TRUE, TRUE, "", ph, f) :
        ph \in {<<>>, <<"thumb", "full">>}, f \in {"", "remote"}}

\* file.Exists(): the object names a file on the server.
Exists(f) == f.FileID # ""

\* The owner of the bot makes the file object it is going to send: from a
\* local file, or from the identifier of a file the server has.
MakeFile(kind, known) ==
    /\ newBot = "ok"
    /\ file = NoFile
    /\ file' = IF known
               THEN [kind |-> kind, FileID |-> "known", filename |-> ""]
               ELSE [kind |-> kind, FileID |-> "", filename |-> "local"]
    /\ UNCHANGED <<botVars, chanVars, source, loopVars, histVars, returned,
                   remote, inv, last>>

\* Variant of EnvelopeError: the Ok field of the envelope is not tested.
EnvelopeErrorIgnoresOk(r) ==
    IF ~r.transport THEN [kind |-> "transport", text |-> ""]
    ELSE IF ~r.valid THEN [kind |-> "decode", text |-> ""]
    ELSE NoError

\* The error an operation returns for response r: the transport's error,
\* the error of json.Unmarshal, "telebot: <Description>" when Ok is false,
\* nil otherwise.
EnvelopeError(r) ==
    IF ~r.transport THEN [kind |-> "transport", text |-> ""]
    ELSE IF ~r.valid THEN [kind |-> "decode", text |-> ""]
    ELSE IF ~r.Ok THEN [kind |-> "telebot", text |-> r.Description]
    ELSE NoError

\* An invocation of operation op by the bot's owner: it called transport
\* function fn (Nil: none) once, got response r, and returned error e, or
\* panicked (p).
Invoked(op, fn, r, e, p) ==
    /\ newBot = "ok"
    /\ ~last.panic
    /\ inv.n < MaxCalls
    /\ last' = [op |-> op, fn |-> fn, calls |-> IF fn = Nil THEN 0 ELSE 1,
                resp |-> r, err |-> e, panic |-> p]
    /\ remote' = IF fn = Nil THEN remote
                 ELSE [remote EXCEPT ![fn] = @ + 1]
    /\ inv' = [n |-> inv.n + 1,
               errs |-> inv.errs + (IF e # NoError THEN 1 ELSE 0)]
    /\ UNCHANGED <<botVars, chanVars, source, loopVars, histVars, returned>>

\* sendRawMessage(command, params): SendMessage, ForwardMessage,
\* EditMessageText, SendLocation, SendVenue.
SendRawMessage(command, r) ==
    /\ Invoked(command, "sendCommand", r, EnvelopeError(r), FALSE)
    /\ UNCHANGED file

\* EditInlineMessageText, SendChatAction, AnswerInlineQuery,
\* AnswerCallbackQuery: one sendCommand, then the envelope.
EnvelopeCall(op, r) ==
    /\ Invoked(op, "sendCommand", r, EnvelopeError(r), FALSE)
    /\ UNCHANGED file

\* Respond: json.Marshal(results) first; its error is returned before any
\* remote call.
Respond(marshals, r) ==
    /\ IF marshals
       THEN Invoked("Respond", "sendCommand", r, EnvelopeError(r), FALSE)
       ELSE Invoked("Respond", Nil, NoResponse,
                    [kind |-> "marshal", text |-> ""], FALSE)
    /\ UNCHANGED file

\* The transport function a file send uses: sendCommand with the FileID of
\* an object that exists, sendFile with the local file otherwise.
Transport(f) == IF Exists(f) THEN "sendCommand" ELSE "sendFile"

\* Variant of SendMedia: the object is aliased before the response is
\* examined.
SendMediaAliasFirst(kind, r) ==
    /\ file.kind = kind
    /\ Invoked("send" \o kind, Transport(file), r, EnvelopeError(r), FALSE)
    /\ file' = [kind |-> kind, FileID |-> r.File,
                filename |-> file.filename]

\* SendAudio, SendDocument, SendSticker, SendVideo: on success the object
\* becomes Result.<Kind> with its own filename put back.
SendMedia(kind, r) ==
    /\ file.kind = kind
    /\ Invoked("send" \o kind, Transport(file), r, EnvelopeError(r), FALSE)
    /\ file' = IF EnvelopeError(r) = NoError
               THEN [kind |-> kind, FileID |-> r.File,
                     filename |-> file.filename]
               ELSE file

SendAudio(r) == SendMedia("Audio", r)

SendDocument(r) == SendMedia("Document", r)

SendSticker(r) == SendMedia("Sticker", r)

SendVideo(r) == SendMedia("Video", r)

\* SendPhoto: on success photo.File becomes the File of the last of the
\* sizes in Result.Photo, with its own filename put back; indexing an empty
\* Result.Photo panics.
SendPhoto(r) ==
    /\ file.kind = "Photo"
    /\ LET e == EnvelopeError(r)
           p == e = NoError /\ r.Photo = <<>>
       IN  /\ Invoked("sendPhoto", Transport(file), r, e, p)
           /\ file' = IF e = NoError /\ ~p
                      THEN [file EXCEPT !.FileID = r.Photo[Len(r.Photo)]]
                      ELSE file

\* One bot and its send/respond operations, on one file object.
NextSend ==
    \/ NewBotOk
    \/ NewBotErr
    \/ \E k \in FileKinds, known \in BOOLEAN : MakeFile(k, known)
    \/ \E c \in RawCommands, r \in Responses : SendRawMessage(c, r)
    \/ \E op \in EnvelopeOps, r \in Responses : EnvelopeCall(op, r)
    \/ \E m \in BOOLEAN, r \in Responses : Respond(m, r)
    \/ \E r \in Responses : SendPhoto(r)
    \/ \E r \in Responses : SendAudio(r)
    \/ \E r \in Responses : SendDocument(r)
    \/ \E r \in Responses : SendSticker(r)
    \/ \E r \in Responses : SendVideo(r)

SpecSend == Init /\ [][NextSend]_vars

\* ============================================================ properties
Started(l) == pc[l] # "idle"

Max(S) == CHOOSE m \in S : \A n \in S : n <= m

\* The updates of `source`, as a set.
Held == {source[i] : i \in 1..Len(source)}

\* Update u has exactly one populated payload.
ExactlyOne(u) ==
    \/ u.Payload /\ ~u.Query /\ ~u.Callback
    \/ ~u.Payload /\ u.Query /\ ~u.Callback
    \/ ~u.Payload /\ ~u.Query /\ u.Callback

\* Loop l has fetched the update with identifier id and its iteration of the
\* range loop is over.
Processed(l, id) ==
    /\ id \in seen[l]
    /\ \A i \in idx[l]..Len(updates[l]) : updates[l][i].ID # id

\* The positions of `sent` at which loop l sent the payload of update id.
SendsOf(l, id) == {i \in 1..Len(sent) : sent[i].loop = l /\ sent[i].of = id}

\* The sends of loop l, in order.
SentBy(l) == SelectSeq(sent, LAMBDA r : r.loop = l)

\* The sends on channel c, in order.
SentOn(c) == SelectSeq(sent, LAMBDA r : r.chan = c)

\* Loop l skipped update u because the channel of its payload kind is nil.
DroppedBy(l, u) ==
    /\ Processed(l, u.ID)
    /\ Target(u, chans[l]).kind # "none"
    /\ Target(u, chans[l]).chan = Nil

\* ----------------------------------------------------------------- C1
\* C1: once an update of a fetched batch has been processed, latestUpdate
\* is that update's identifier, whatever became of the update: delivered,
\* without payload, or dropped because its channel is nil.
C1_CursorAdvancesOnEveryUpdate ==
    \A l \in LoopIds :
        (Started(l) /\ idx[l] > 1) =>
            latestUpdate[l] = updates[l][idx[l] - 1].ID

\* ----------------------------------------------------------------- C2
\* C2: a loop that stands at its next getUpdates call requests an offset
\* greater than every identifier its earlier calls returned, so that no
\* identifier is returned by two calls.
C2_NoIdentifierFetchedTwice ==
    \A l \in LoopIds :
        pc[l] = "fetch" => \A i \in seen[l] : Offset(l) > i

\* ----------------------------------------------------------------- C3
\* C3: at the end of each processed batch latestUpdate is the maximum of
\* the identifiers fetched so far (and latestUpdate never decreases).
C3_CursorIsMaxOfFetched ==
    \A l \in LoopIds :
        (pc[l] = "fetch" /\ seen[l] # {}) => latestUpdate[l] = Max(seen[l])

\* ----------------------------------------------------------------- C4
\* Loop l has just got a batch: latestUpdate still has the value it had at
\* the getUpdates call.
JustFetched(l) == pc[l] \in {"route", "send"} /\ idx[l] = 1

\* The latest getUpdates call of loop l returned an error.
JustFailed(l) == pc[l] = "fetch" /\ lastFetch[l].errs > 0

\* C4: every getUpdates call requests offset latestUpdate + 1: the offset
\* of the latest call is the cursor of that moment plus one, the batch it
\* returned holds only identifiers above that cursor, and as long as no
\* update was returned the offset requested is 1.
C4_FetchRequestsCursorPlusOne ==
    \A l \in LoopIds :
        /\ (JustFetched(l) \/ JustFailed(l)) =>
               lastFetch[l].offset = latestUpdate[l] + 1
        /\ (Started(l) /\ lastFetch[l].errs = 0) =>
               \A i \in IdsOf(updates[l]) : i > lastFetch[l].offset - 1
        /\ (lastFetch[l].offset # 0 /\ seen[l] = {}) => lastFetch[l].offset = 1

\* A batch fetched with an offset above 1: the cursor had advanced.
C4_Witness ==
    \E l \in LoopIds :
        JustFetched(l) /\ latestUpdate[l] >= 1 /\ lastFetch[l].offset >= 2

\* ----------------------------------------------------------------- C5
\* The payload kind of an update with exactly one populated payload.
PayloadKind(u) ==
    IF u.Payload THEN "Message" ELSE IF u.Query THEN "Query" ELSE "Callback"

\* The channel parameter of loop l for a payload kind.
ChannelFor(l, kind) ==
    CASE kind = "Message"  -> chans[l].messages
      [] kind = "Query"    -> chans[l].queries
      [] kind = "Callback" -> chans[l].callbacks

\* C5: an update with exactly one populated payload whose channel is set
\* is, once processed, sent exactly once: on that channel, carrying that
\* update's payload, and latestUpdate has reached its identifier; before it
\* is processed nothing is sent for it.
C5_OnePayloadSentOnceOnItsChannel ==
    \A l \in LoopIds : \A u \in Held :
        (Started(l) /\ ExactlyOne(u) /\ ChannelFor(l, PayloadKind(u)) # Nil) =>
            IF Processed(l, u.ID)
            THEN /\ Cardinality(SendsOf(l, u.ID)) = 1
                 /\ \A i \in SendsOf(l, u.ID) :
                        sent[i] = [loop |-> l,
                                   chan |-> ChannelFor(l, PayloadKind(u)),
                                   kind |-> PayloadKind(u), of |-> u.ID]
                 /\ latestUpdate[l] >= u.ID
            ELSE SendsOf(l, u.ID) = {}

\* The batch [Message, Query] with both channels set has been routed: the
\* message went to the message channel, the query to the query channel and
\* the cursor is the identifier of the query.
C5_Witness ==
    \E l \in LoopIds :
        /\ pc[l] = "fetch" /\ Len(updates[l]) = 2
        /\ chans[l].messages # Nil /\ chans[l].queries # Nil
        /\ ExactlyOne(updates[l][1]) /\ updates[l][1].Payload
        /\ ExactlyOne(updates[l][2]) /\ updates[l][2].Query
        /\ SentBy(l) =
             <<[loop |-> l, chan |-> chans[l].messages, kind |-> "Message",
                of |-> updates[l][1].ID],
               [loop |-> l, chan |-> chans[l].queries, kind |-> "Query",
                of |-> updates[l][2].ID]>>
        /\ latestUpdate[l] = updates[l][2].ID

\* ----------------------------------------------------------------- C6
\* C6: in a loop started by Listen the query and callback channels are nil,
\* every send is the send of a Message payload of a fetched update on the
\* subscription channel, an update dropped for its nil channel is never
\* sent nor buffered, the loop is still running, and every processed
\* update with a Message payload has been sent when the subscription
\* channel is set (also when updates before it were dropped).
C6_ListenSendsOnlyMessages ==
    Started("Listen") =>
        /\ chans["Listen"].queries = Nil /\ chans["Listen"].callbacks = Nil
        /\ pc["Listen"] \in {"fetch", "route", "send"}
        /\ \A i \in 1..Len(sent) :
               sent[i].loop = "Listen" =>
                   /\ sent[i].kind = "Message"
                   /\ sent[i].chan = chans["Listen"].messages
                   /\ \E u \in Held : u.ID = sent[i].of /\ u.Payload
        /\ \A c \in ChanIds : \A i \in 1..Len(buf[c]) :
               buf[c][i].loop = "Listen" =>
                   buf[c][i].kind = "Message" /\ c = chans["Listen"].messages
        /\ \A u \in Held :
               /\ DroppedBy("Listen", u) => SendsOf("Listen", u.ID) = {}
               /\ (Processed("Listen", u.ID) /\ u.Payload
                      /\ chans["Listen"].messages # Nil) =>
                          SendsOf("Listen", u.ID) # {}

\* A Listen loop has routed a batch whose first update, a query, was
\* dropped and whose second update, a message, was sent.
C6_Witness ==
    /\ pc["Listen"] = "fetch" /\ Len(updates["Listen"]) >= 2
    /\ ~updates["Listen"][1].Payload /\ updates["Listen"][1].Query
    /\ DroppedBy("Listen", updates["Listen"][1])
    /\ updates["Listen"][2].Payload
    /\ SendsOf("Listen", updates["Listen"][2].ID) # {}

\* ----------------------------------------------------------------- C7
\* The channel of the pending send of loop l has no room: it is unbuffered
\* or its buffer is full.
NoRoom(l) == Len(buf[Sending(l).chan]) >= chanCap

\* C7: while loop l is at the send of update u, latestUpdate is below u's
\* identifier and stays what it is, neither u nor any later update of the
\* batch has been sent, and the loop makes no other step than completing
\* that send; it leaves the send only by passing u's payload to the channel
\* (into a free buffer slot or to a receiver), and then latestUpdate is u's
\* identifier.
C7_Backpressure ==
    [][\A l \in LoopIds :
          pc[l] = "send" =>
              /\ latestUpdate[l] < Current(l).ID
              /\ \A i \in idx[l]..Len(updates[l]) :
                     SendsOf(l, updates[l][i].ID) = {}
              /\ pc'[l] = "send" =>
                     /\ latestUpdate'[l] = latestUpdate[l]
                     /\ idx'[l] = idx[l]
                     /\ updates'[l] = updates[l]
                     /\ SentBy(l)' = SentBy(l)
              /\ pc'[l] # "send" =>
                     /\ sent' = Append(sent, Sending(l))
                     /\ latestUpdate'[l] = Current(l).ID
                     /\ \/ buf' = [buf EXCEPT ![Sending(l).chan] =
                                      Append(@, Sending(l))]
                        \/ buf[Sending(l).chan] = <<>> /\ buf' = buf]_vars

\* A loop is at a send on a channel without room while the next update of
\* the batch is destined for another channel, which is set and empty.
C7_Witness ==
    \E l \in LoopIds :
        /\ pc[l] = "send" /\ NoRoom(l) /\ idx[l] < Len(updates[l])
        /\ LET t == Target(updates[l][idx[l] + 1], chans[l])
           IN  /\ t.chan # Nil /\ t.chan # Sending(l).chan
               /\ buf[t.chan] = <<>>

\* ----------------------------------------------------------------- C8
\* A step in which loop l gets the reply of a getUpdates call.
FetchStep(l) ==
    \/ lastFetch'[l] # lastFetch[l]
    \/ updates'[l] # updates[l]
    \/ idx'[l] < idx[l]

\* C8: getUpdates is called only by a loop that stands at its fetch with
\* the range over the previous batch finished: every update of that batch
\* has been processed and no send is pending.
C8_OneBatchInFlight ==
    [][\A l \in LoopIds :
          FetchStep(l) =>
              /\ pc[l] = "fetch"
              /\ idx[l] = Len(updates[l]) + 1
              /\ \A i \in IdsOf(updates[l]) : Processed(l, i)]_vars

\* A batch of two updates has been ranged over, its last update sent, and
\* the loop stands at its next fetch with the offset after its cursor.
C8_Witness ==
    \E l \in LoopIds :
        /\ pc[l] = "fetch" /\ Len(updates[l]) >= 2
        /\ SendsOf(l, updates[l][Len(updates[l])].ID) # {}
        /\ lastFetch[l].offset = latestUpdate[l] + 1

\* ----------------------------------------------------------------- C9
\* A step in which a getUpdates call of loop l returns an error.
ErrStep(l) == lastFetch'[l].errs > lastFetch[l].errs

\* C9: a getUpdates error sends nothing, changes neither latestUpdate nor
\* the batch, and leaves the loop at its fetch; the call that follows an
\* error requests the same offset, after any number of errors.
C9_FetchErrorRetriesSameOffset ==
    [][\A l \in LoopIds :
          /\ ErrStep(l) =>
                 /\ sent' = sent /\ buf' = buf
                 /\ latestUpdate' = latestUpdate
                 /\ updates' = updates /\ idx' = idx /\ seen' = seen
                 /\ pc'[l] = "fetch"
          /\ lastFetch'[l].errs > 0 => pc'[l] = "fetch"
          /\ (lastFetch[l].errs > 0 /\ FetchStep(l)) =>
                 lastFetch'[l].offset = lastFetch[l].offset]_vars

\* Two getUpdates errors in a row, after an update had been delivered.
C9_Witness ==
    \E l \in LoopIds :
        /\ lastFetch[l].errs >= 2 /\ pc[l] = "fetch"
        /\ SentBy(l) # <<>>

\* ---------------------------------------------------------------- C10
\* C10: the sends of a loop happen in the order of the identifiers of
\* their updates, on one channel and across channels, and a channel hands
\* its values out in the order they were sent: its buffer is the end of the
\* sequence of sends on it.
C10_SourceOrder ==
    /\ \A l \in LoopIds : \A i, j \in 1..Len(SentBy(l)) :
           i < j => SentBy(l)[i].of < SentBy(l)[j].of
    /\ \A c \in ChanIds :
           LET s == SentOn(c)
               n == Len(buf[c])
           IN  n <= Len(s) /\ buf[c] = SubSeq(s, Len(s) - n + 1, Len(s))

\* Three sends of one loop: the first and the third on one channel, the
\* second on another.
C10_Witness ==
    /\ Len(sent) >= 3
    /\ sent[1].loop = sent[3].loop /\ sent[1].loop = sent[2].loop
    /\ sent[1].chan = sent[3].chan /\ sent[1].chan # sent[2].chan


\* ---------------------------------------------------------------- C11
\* Update u has no populated payload.
NoPayload(u) == ~u.Payload /\ ~u.Query /\ ~u.Callback

\* C11: for an update without payload nothing is ever sent; once it is
\* processed latestUpdate is its identifier (and stays at or above it), and
\* the loop goes on with the next update of the batch, or with the next
\* fetch after the last one.
C11_EmptyUpdateSkipped ==
    \A l \in LoopIds :
        Started(l) =>
            /\ \A u \in Held :
                   NoPayload(u) =>
                       /\ SendsOf(l, u.ID) = {}
                       /\ Processed(l, u.ID) => latestUpdate[l] >= u.ID
            /\ (idx[l] > 1 /\ NoPayload(updates[l][idx[l] - 1])) =>
                   /\ latestUpdate[l] = updates[l][idx[l] - 1].ID
                   /\ pc[l] = IF idx[l] > Len(updates[l]) THEN "fetch"
                              ELSE pc[l]
                   /\ pc[l] \in {"fetch", "route", "send"}

\* A batch whose first update has no payload has been ranged over, and its
\* second update was sent.
C11_Witness ==
    \E l \in LoopIds :
        /\ pc[l] = "fetch" /\ Len(updates[l]) = 2
        /\ NoPayload(updates[l][1])
        /\ SendsOf(l, updates[l][2].ID) # {}
        /\ latestUpdate[l] = updates[l][2].ID

\* ---------------------------------------------------------------- C12
\* Update u has more than one populated payload.
MultiPayload(u) == ~NoPayload(u) /\ ~ExactlyOne(u)

\* The first populated payload of u in the order Payload, Query, Callback.
FirstKind(u) ==
    IF u.Payload THEN "Message" ELSE IF u.Query THEN "Query" ELSE "Callback"

C13_AtMostOnce ==
    \A l \in LoopIds : \A u \in Held : Cardinality(SendsOf(l, u.ID)) <= 1

\* A run with a fetch error at the cursor reached, a dropped update and two
\* sends.
C13_Witness ==
    \E l \in LoopIds :
        /\ Len(SentBy(l)) >= 2
        /\ \E u \in Held : DroppedBy(l, u)
        /\ lastFetch[l].errs >= 1 /\ latestUpdate[l] >= 2


\* ---------------------------------------------------------------- C14
\* C14: a started loop is always at its fetch, at the range loop or at a
\* send, never at an end; it can always take its next step, or stands at a
\* send on a full channel from which a consumer can receive.  The call of
\* Start has not returned; the call of Listen has returned, from the moment
\* the loop exists and before any fetch.
C14_NoTerminalState ==
    \A l \in LoopIds :
        /\ ~Started(l) => ~returned[l]
        /\ Started(l) =>
               /\ pc[l] \in {"fetch", "route", "send"}
               /\ returned[l] = (l = "Listen")
               /\ \/ ENABLED PollStep(l)
                  \/ pc[l] = "send" /\ ENABLED Receive(Sending(l).chan)

\* The loop run by Start is back at its fetch after an error, an empty or
\* dropped batch and a delivered update, and Start has not returned.
C14_Witness ==
    /\ pc["Start"] = "fetch" /\ ~returned["Start"]
    /\ lastFetch["Start"].errs >= 1
    /\ latestUpdate["Start"] >= 2
    /\ SentBy("Start") # <<>>


\* ---------------------------------------------------------------- C15
\* The response of the latest invocation is an envelope with ok = true.
LastAccepted == last.resp.transport /\ last.resp.valid /\ last.resp.Ok

\* C15: after a file send that uploaded the object and got a response with
\* ok = true, the object exists on the server (it is aliased to the copy
\* in the response) with its local filename kept, and the send has
\* returned; as long as every send succeeded, sendFile was called at most
\* once.
C15_UploadedAtMostOnce ==
    /\ (last.op \in FileOps /\ last.fn = "sendFile" /\ LastAccepted) =>
           /\ ~last.panic
           /\ Exists(file)
           /\ file.filename = "local"
    /\ (inv.errs = 0 /\ ~last.panic) => remote.sendFile <= 1

\* ---------------------------------------------------------------- C16
\* C16 as stated: the latest invocation made exactly one remote call; it
\* returned a non-nil error when the transport failed, the response did not
\* decode or the envelope had ok = false (with its description), and a nil
\* error only when the envelope had ok = true.
C16_ExactlyOneRemoteCall ==
    inv.n > 0 =>
        /\ last.calls = 1
        /\ ~last.resp.transport => last.err.kind = "transport"
        /\ (last.resp.transport /\ ~last.resp.valid) =>
               last.err.kind = "decode"
        /\ (last.resp.transport /\ last.resp.valid /\ ~last.resp.Ok) =>
               last.err = [kind |-> "telebot",
                           text |-> last.resp.Description]
        /\ last.err = NoError => LastAccepted

\* C16 as amended: an invocation makes at most one remote call, and none
\* only when Respond could not marshal its results and returned that error;
\* the remote calls never outnumber the invocations.  With its one call
\* made, it returned a non-nil error when the transport failed, the
\* response did not decode or the envelope had ok = false (with its
\* description), and a nil error only when the envelope had ok = true.
C16_AtMostOneRemoteCall ==
    /\ remote.sendCommand + remote.sendFile <= inv.n
    /\ inv.n > 0 =>
        /\ last.calls <= 1
        /\ last.calls = 0 <=>
               (last.op = "Respond" /\ last.err.kind = "marshal")
        /\ last.calls = 1 =>
               /\ ~last.resp.transport => last.err.kind = "transport"
               /\ (last.resp.transport /\ ~last.resp.valid) =>
                      last.err.kind = "decode"
               /\ (last.resp.transport /\ last.resp.valid
                       /\ ~last.resp.Ok) =>
                      last.err = [kind |-> "telebot",
                                  text |-> last.resp.Description]
               /\ last.err = NoError => LastAccepted

\* Respond has returned its marshalling error without a remote call, after
\* an operation that was refused with ok = false.
C16_Witness ==
    /\ last.op = "Respond" /\ last.calls = 0
    /\ inv.errs >= 2 /\ inv.n = remote.sendCommand + remote.sendFile + 1

\* ---------------------------------------------------------------- C20
\* C20: a file send that returns an error leaves the file object as it
\* was; an object that does not exist on the server is sent with sendFile,
\* so that after a failed upload it is uploaded again.
C20_FailedSendKeepsFile ==
    [][(inv'.n = inv.n + 1 /\ last'.op \in FileOps) =>
          /\ last'.err # NoError => file' = file
          /\ ~Exists(file) =>
                 /\ last'.fn = "sendFile"
                 /\ remote'.sendFile = remote.sendFile + 1]_vars

\* A local file whose upload was refused with ok = false has been uploaded
\* a second time.
C20_Witness ==
    /\ last.op \in FileOps /\ last.fn = "sendFile"
    /\ remote.sendFile >= 2 /\ inv.errs >= 1
    /\ file.filename = "local"


\* ---------------------------------------------------------------- C17
\* C17: NewBot calls getMe once; when getMe fails the bot is nil, and when
\* it succeeds the bot carries the given token and the resolved identity,
\* in every later state, whatever the poll loop has done.
C17_NewBotChecksIdentityOnce ==
    /\ newBot = "uncalled" => (remote.getMe = 0 /\ bot = NoBot)
    /\ newBot = "error" => (remote.getMe = 1 /\ bot = NoBot)
    /\ newBot = "ok" =>
           /\ remote.getMe = 1
           /\ bot.Token = "token" /\ bot.Identity = "me"
    /\ (\E l \in LoopIds : Started(l)) => newBot = "ok"

\* The bot was made, a loop has delivered an update and advanced its
\* cursor.
C17_Witness ==
    /\ newBot = "ok" /\ remote.getMe = 1
    /\ \E l \in LoopIds : latestUpdate[l] > 0 /\ sent # <<>>


\* ---------------------------------------------------------------- C18
\* The step is taken by loop l: Listen or Start entering poll, or a step
\* of poll itself; each of them moves the loop's position, batch, place in
\* the batch, or fetch record.
StepOf(l) ==
    \/ pc'[l] # pc[l]
    \/ updates'[l] # updates[l]
    \/ idx'[l] # idx[l]
    \/ lastFetch'[l] # lastFetch[l]

\* C18: entering poll sets the loop's own cursor to 0, and a step of one
\* loop (entry, fetch, dispatch, send, cursor assignment) never changes
\* the cursor of the other loop; a consumer's receive changes no cursor.
C18_CursorPrivateToLoop ==
    [][/\ \A l \in LoopIds :
            /\ (pc[l] = "idle" /\ pc'[l] # "idle") => latestUpdate'[l] = 0
            /\ StepOf(l) =>
                   \A m \in LoopIds \ {l} :
                       latestUpdate'[m] = latestUpdate[m]
       /\ (\A l \in LoopIds : ~StepOf(l)) =>
              latestUpdate' = latestUpdate]_vars

\* Both loops run, each in the middle of a batch, with different cursors.
C18_Witness ==
    /\ \A l \in LoopIds : pc[l] # "idle" /\ latestUpdate[l] > 0
    /\ latestUpdate["Listen"] # latestUpdate["Start"]
    /\ \E l \in LoopIds : updates[l] # <<>> /\ idx[l] <= Len(updates[l])


\* ---------------------------------------------------------------- C19
\* Loop l runs, and the source holds update i with exactly one payload,
\* whose channel is set for l.
Deliverable(l, i) ==
    /\ Started(l)
    /\ i <= Len(source)
    /\ ExactlyOne(source[i])
    /\ ChannelFor(l, PayloadKind(source[i])) # Nil

\* Loop l has sent update i on the channel of its payload, and the cursor
\* has reached its identifier.
Delivered(l, i) ==
    /\ \E k \in SendsOf(l, i) :
           sent[k].chan = ChannelFor(l, PayloadKind(source[i]))
    /\ latestUpdate[l] >= i

\* C19: when fetches do not fail forever and consumers keep receiving,
\* every update the source holds with exactly one payload whose channel is
\* set is eventually delivered on that channel, and the cursor eventually
\* reaches its identifier.
C19_EveryUpdateEventuallyDelivered ==
    \A l \in LoopIds : \A i \in 1..MaxId :
        Deliverable(l, i) ~> Delivered(l, i)

====
